---- MODULE Spec2Model ----
(***************************************************************************)
(* Model of the client management tool of ssh-liberty-bridge               *)
(* (src/generator/generate.py): the Redis set of registered clients, the   *)
(* directory of client configuration files, and invocations of main()      *)
(* running generate() and remove_client() against them, one store or file  *)
(* system call per step.                                                    *)
(***************************************************************************)
EXTENDS Integers, Sequences, FiniteSets, TLC

\* ------------------------------------------------------------------ bounds
\* Number of distinct Ed25519 keypairs Ed25519PrivateKey.generate() draws from.
NumKeys == 2
\* Largest N of "--add N".
MaxAdd == 2
\* Largest number of files that match *_key.pub when the host keys are read
\* on their own.
MaxKeyFiles == 2

\* The invocations of the tool that may run at the same time.
Procs == {"inv1", "inv2"}

\* ------------------------------------------------------------- identifiers
\* A candidate identifier string is modelled by the random bits it spells
\* (body) and the way it spells them (form):
\*   "canonical"  lowercase, hyphenated, version and variant bits of UUIDv4
\*   "upper"      the same digits in upper case
\*   "nohex"      not 32 hexadecimal digits
\*   "empty"      the empty string (the default of --rem and --add-with-uuid)
Canon(b) == [body |-> b, form |-> "canonical"]
EmptyStr == [body |-> 0, form |-> "empty"]
NoneId == [body |-> 0, form |-> "none"]
\* Two identifiers: the one an operation names, and another.
ValidIds == {Canon(b) : b \in {1, 2}}
InvalidIds == {[body |-> 1, form |-> "upper"], [body |-> 1, form |-> "nohex"]}
Cands == ValidIds \cup InvalidIds

\* uuid.UUID(input_str, version=4): ValueError unless the string holds
\* 32 hexadecimal digits; the version and variant bits are then forced.
UUIDParses(s) == s.form \in {"canonical", "upper"}
\* str(uuid_obj): the canonical lowercase hyphenated spelling.
UUIDStr(s) == Canon(s.body)

is_valid_uuid_v4(input_str) ==
    IF UUIDParses(input_str) THEN UUIDStr(input_str) = input_str ELSE FALSE

\* ---------------------------------------------------------- configuration
\* Python values: a str, an int or None.
StrV(s) == [t |-> "str", v |-> s]
IntV(n) == [t |-> "int", v |-> n]
NoneV == [t |-> "none"]
Raised == [t |-> "raise"]

\* str(tmp)
PyStr(x) == IF x.t = "int" THEN StrV(ToString(x.v)) ELSE x

\* A variant of get_variable in which the environment variable, when set,
\* wins over the flag: what C15 rules out.
get_variable_env_first(has_var, tmp, envv, strict, default) ==
    IF envv.t # "none" THEN envv
    ELSE IF has_var /\ ~(tmp.t = "str" /\ tmp.v = "") /\ ~(tmp.t = "int" /\ tmp.v = -1)
    THEN PyStr(tmp)
    ELSE IF default.t # "none" THEN default
    ELSE IF strict THEN Raised
    ELSE NoneV

\* get_variable(variable, args, strict, default): has_var and tmp are the
\* lookup of the lower-cased name in args, envv is os.getenv of the
\* upper-cased name.
get_variable(has_var, tmp, envv, strict, default) ==
    LET onExcept == IF default.t # "none" THEN default
                    ELSE IF strict THEN Raised
                    ELSE NoneV
    IN IF \/ ~has_var
          \/ (tmp.t = "str" /\ tmp.v = "")
          \/ (tmp.t = "int" /\ tmp.v = -1)
       THEN IF envv.t = "none" THEN onExcept ELSE envv
       ELSE PyStr(tmp)

\* The four variables generate() reads, with the argparse default of each.
GenVars == <<"server_addr", "server_port", "host_key_path", "template_path">>
FlagDefault(name) == IF name = "server_port" THEN IntV(-1) ELSE StrV("")
FlagGiven(name) ==
    CASE name = "server_port" -> IntV(51820)
      [] name = "host_key_path" -> StrV("/etc/ssh/")
      [] OTHER -> StrV("x")

\* A configuration: for each variable the value of its flag and of its
\* environment variable.
CfgGood ==
    [n \in 1..4 |->
        IF n % 2 = 1 THEN [flag |-> FlagGiven(GenVars[n]), env |-> NoneV]
        ELSE [flag |-> FlagDefault(GenVars[n]), env |-> StrV("y")]]
CfgMissing(m) ==
    [CfgGood EXCEPT ![m] = [flag |-> FlagDefault(GenVars[m]), env |-> NoneV]]
CfgNoSlash == [CfgGood EXCEPT ![3] = [flag |-> StrV("/etc/ssh"), env |-> NoneV]]
Configs == {CfgGood, CfgNoSlash} \cup {CfgMissing(m) : m \in 1..4}

\* host_key_path.endswith("/")
EndsWithSlash(s) == s.v \in {"/etc/ssh/"}

\* host_addr and redis_url, which main() reads (config_path has a default).
MainGood ==
    [host_addr |-> [flag |-> StrV("x"), env |-> NoneV],
     redis_url |-> [flag |-> StrV(""), env |-> StrV("y")]]
MainConfigs ==
    {MainGood,
     [MainGood EXCEPT !.host_addr = [flag |-> StrV(""), env |-> NoneV]],
     [MainGood EXCEPT !.redis_url = [flag |-> StrV(""), env |-> NoneV]]}

\* -------------------------------------------------------------- host keys
\* A string is the sequence of its tokens: runs of whitespace, and words
\* without whitespace in them.
Whitespace == {" ", "  ", "\t", "\n"}
\* The text of a host key file: its fields with sep between them and a
\* newline at the end.
Content(fields, sep) ==
    [n \in 1..(2 * Len(fields)) |->
        IF n % 2 = 1 THEN fields[(n + 1) \div 2]
        ELSE IF n = 2 * Len(fields) THEN "\n" ELSE sep]
KeyFilesGood ==
    << Content(<<"ssh-ed25519", "AAAA", "host1">>, " "), Content(<<"ssh-rsa", "BBBB">>, " ") >>
KeyFileSets == {<<>>, KeyFilesGood}

\* f.read().strip().split(): the words of the text.
IsWord(t) == t \notin Whitespace
Split(text) == SelectSeq(text, IsWord)
\* " ".join(words)
Join(words) ==
    [n \in 1..(IF Len(words) = 0 THEN 0 ELSE 2 * Len(words) - 1) |->
        IF n % 2 = 1 THEN words[(n + 1) \div 2] ELSE " "]

\* A variant of HostKeyEntry that keeps every field of the file: what C17
\* rules out.
HostKeyEntryWhole(text) == Join(Split(text))

\* One entry of host_keys, lines 155-159: the first two fields of the file
\* when there are more, joined by a space.
HostKeyEntry(text) ==
    LET host_key == Split(text)
    IN Join(IF Len(host_key) > 2 THEN SubSeq(host_key, 1, 2) ELSE host_key)
CollectHostKeys(key_files) == [n \in 1..Len(key_files) |-> HostKeyEntry(key_files[n])]
\* json.dumps(host_keys): a JSON array of the entries, each between quotes.
JsonDumps(host_keys) ==
    [n \in 1..Len(host_keys) |-> <<"\"">> \o host_keys[n] \o <<"\"">>]

\* ---------------------------------------------------------------- template
\* What open(template_path) finds: no file, a template that substitutes, or
\* one that does not (an invalid placeholder, or a name generate() does not
\* bind: ValueError or KeyError in substitute).
TemplateFiles == {"absent", "ok", "malformed"}

\* ------------------------------------------------------------- environment
\* What a call of generate() finds around it: the configuration flags and
\* environment variables, the host key directory and the template file. One
\* thing is wrong at a time.
EnvGood == [cfg |-> CfgGood, key_files |-> KeyFilesGood, template |-> "ok"]
Envs ==
    {[EnvGood EXCEPT !.cfg = c] : c \in Configs}
    \cup {[EnvGood EXCEPT !.key_files = kf] : kf \in KeyFileSets}
    \cup {[EnvGood EXCEPT !.template = t] : t \in TemplateFiles}

\* -------------------------------------------------------------------- keys
Keys == 1..NumKeys

\* client_uuid + "::" + pub_bytes.decode()
ClientString(client_uuid, pubkey) == <<client_uuid, pubkey>>
\* m.startswith(client_uuid): a canonical identifier has a fixed length of
\* 36 characters, so it is a prefix of a member exactly when it is the
\* member's own identifier.
StartsWith(m, client_uuid) == m[1] = client_uuid
\* m.split("::")[0]
IdOf(m) == m[1]

\* ------------------------------------------------------------------- state
VARIABLES
    users,   \* the members of the Redis set USERS_SET
    files,   \* the identifiers <id> with a file <config_path>/<id>.json
    pc,      \* where each invocation is in main()
    args,    \* the parsed command line of each invocation
    loc,     \* the locals of the running generate() or remove_client()
    err,     \* the kind of the exception that ended the invocation
    ret,     \* what the invocation's latest generate() returned
    log,     \* the calls the invocation has made, in order
    prev,    \* the identifier the latest finished operation removed
    call,    \* a helper function called on its own, with its arguments
    result   \* what that call returned

vars == <<users, files, pc, args, loc, err, ret, log, prev, call, result>>

\* No helper is called on its own.
NoCall == [fn |-> "none"]
Pending == [t |-> "pending"]

NoMember == <<NoneId, 0>>
NoLocals == [uuid |-> NoneId, key |-> 0, tmpl |-> "none", cs |-> NoMember]

\* parse_args(): the flags main() acts on.
Args(awu, n, rem, lst) == [add_with_uuid |-> awu, add |-> n, rem |-> rem, list |-> lst]
NoArgs == Args(EmptyStr, 0, EmptyStr, FALSE)
\* The command lines of the invocations that run one after the other: any
\* mix of --add, --rem and --list, and --add-with-uuid alone or with all three.
CmdLines ==
    {Args(EmptyStr, n, rem, lst) :
        n \in 0..MaxAdd, rem \in Cands \cup {EmptyStr}, lst \in BOOLEAN}
    \cup {Args(awu, 0, EmptyStr, FALSE) : awu \in Cands}
    \cup {Args(awu, MaxAdd, Canon(1), TRUE) : awu \in Cands}
\* The command lines of the invocations that race: one operation each, on a
\* well-formed identifier.
RaceCmdLines ==
    {Args(awu, 0, EmptyStr, FALSE) : awu \in ValidIds}
    \cup {Args(EmptyStr, 0, rem, FALSE) : rem \in ValidIds}
    \cup {Args(EmptyStr, 0, EmptyStr, TRUE)}

Init ==
    /\ users = {}
    /\ files = {}
    /\ pc = [p \in Procs |-> "idle"]
    /\ args = [p \in Procs |-> NoArgs]
    /\ loc = [p \in Procs |-> NoLocals]
    /\ err = [p \in Procs |-> "none"]
    /\ ret = [p \in Procs |-> NoneId]
    /\ log = [p \in Procs |-> <<>>]
    /\ prev = NoneId
    /\ call = NoCall
    /\ result = Pending

\* ------------------------------------------------------------ control flow
\* main(), after the loop of adds: --rem, then --list.
AfterAdds(a) ==
    IF a.rem.form # "empty" THEN "remove_client"
    ELSE IF a.list THEN "list" ELSE "done"
\* main(), once the store answers the ping.
AfterPing(a) ==
    IF a.add_with_uuid.form # "empty" THEN "generate"
    ELSE IF a.add > 0 THEN "generate" ELSE AfterAdds(a)
\* A variant of AfterGenerate without the return that follows the add of
\* --add-with-uuid: what C20 rules out.
AfterGenerateFallsThrough(a, done) ==
    IF done < a.add THEN "generate" ELSE AfterAdds(a)

\* main(), when generate() returns; done counts the adds of the loop so far.
AfterGenerate(a, done) ==
    IF a.add_with_uuid.form # "empty" THEN "done"
    ELSE IF done < a.add THEN "generate" ELSE AfterAdds(a)
\* main(), when remove_client() returns.
AfterRemove(a) == IF a.list THEN "list" ELSE "done"

\* A variant of Raise in which main() catches the exception of an add and
\* goes on with --rem and --list: what C13 rules out.
RaiseCaughtInMain(p, kind) ==
    /\ pc' = [pc EXCEPT ![p] = IF pc[p] \in {"generate", "sadd", "write", "save"}
                                THEN AfterAdds(args[p]) ELSE "failed"]
    /\ err' = [err EXCEPT ![p] = kind]

\* An exception leaves the operation and, uncaught, main().
Raise(p, kind) ==
    /\ pc' = [pc EXCEPT ![p] = "failed"]
    /\ err' = [err EXCEPT ![p] = kind]

\* The calls of the operation the invocation entered last.
OpEntries == {"generate", "remove_client", "list"}
RECURSIVE LastOp(_)
LastOp(s) ==
    IF s = <<>> THEN <<>>
    ELSE IF s[Len(s)] \in OpEntries THEN <<s[Len(s)]>>
    ELSE LastOp(SubSeq(s, 1, Len(s) - 1)) \o <<s[Len(s)]>>
Called(p, what) == \E n \in 1..Len(LastOp(log[p])) : LastOp(log[p])[n] = what
AddsDone(s) == Cardinality({n \in 1..Len(s) : s[n] = "generate.return"})
Logged(p, calls) == log' = [log EXCEPT ![p] = log[p] \o calls]
\* The calls p makes in this step.
StepCalls(p) == SubSeq(log'[p], Len(log[p]) + 1, Len(log'[p]))

\* -------------------------------------------------------------------- main
DEFAULT_CONFIG_PATH == StrV("/var/www/html/ssh-server/")
\* main(), lines 229-233: whether host_addr, config_path and redis_url resolve.
MainResolves(m) ==
    LET host_addr == get_variable(TRUE, m.host_addr.flag, m.host_addr.env, TRUE, NoneV)
        config_path == get_variable(TRUE, StrV(""), NoneV, TRUE, DEFAULT_CONFIG_PATH)
        redis_url == get_variable(TRUE, m.redis_url.flag, m.redis_url.env, TRUE, NoneV)
    IN Raised \notin {host_addr, config_path, redis_url}

\* redis_client.ping(): PONG, a false reply, or an exception.
PingReplies == {"PONG", "False", "error"}
\* A variant of Pinged that takes every reply for good: what C14 rules out.
PingedWhateverReply(reply) == reply # "error"
\* "if not redis_client.ping()" lets main() go on.
Pinged(reply) == reply = "PONG"
\* What the ping leaves in the log of calls.
PingCalls(reply) ==
    IF reply = "PONG" THEN <<"ping">>
    ELSE IF reply = "False" THEN <<"ping", "false">>
    ELSE <<"ping", "raise">>

\* main() up to the ping: a new invocation parses its command line, resolves
\* host_addr, config_path and redis_url and pings the store.
MainStart(p, A) ==
    /\ pc[p] = "idle"
    /\ \E a \in A, resolved \in {MainResolves(m) : m \in MainConfigs},
          reply \in PingReplies :
        /\ args' = [args EXCEPT ![p] = a]
        /\ IF ~resolved
           THEN /\ Raise(p, "MissingConfiguration")
                /\ UNCHANGED log
           ELSE /\ Logged(p, PingCalls(reply))
                /\ IF reply = "error" \/ ~Pinged(reply)
                   THEN Raise(p, "StoreUnavailable")
                   ELSE /\ pc' = [pc EXCEPT ![p] = AfterPing(a)]
                        /\ err' = [err EXCEPT ![p] = "none"]
    /\ UNCHANGED <<users, files, loc, ret>>

\* The process ends: main() returned or an exception left it. The next
\* invocation starts from nothing but the store and the files.
Exit(p) ==
    /\ pc[p] \in {"done", "failed"}
    /\ pc' = [pc EXCEPT ![p] = "idle"]
    /\ args' = [args EXCEPT ![p] = NoArgs]
    /\ loc' = [loc EXCEPT ![p] = NoLocals]
    /\ err' = [err EXCEPT ![p] = "none"]
    /\ ret' = [ret EXCEPT ![p] = NoneId]
    /\ log' = [log EXCEPT ![p] = <<>>]
    /\ UNCHANGED <<users, files>>

\* ---------------------------------------------------------------- generate
\* A variant of PrepareFails in which the member is registered before the
\* checks are made: what C7 rules out.
PrepareFailsAfterSadd(p, u, kind) ==
    /\ Raise(p, kind)
    /\ loc' = [loc EXCEPT ![p] = [NoLocals EXCEPT !.uuid = u]]
    /\ users' = users \cup {ClientString(u, 1)}
    /\ UNCHANGED files

\* generate() raises before it has registered or written anything: lines
\* 139, 141-144, 149, 162 and 164.
PrepareFails(p, u, kind) ==
    /\ Raise(p, kind)
    /\ loc' = [loc EXCEPT ![p] = [NoLocals EXCEPT !.uuid = u]]
    /\ UNCHANGED <<users, files>>

\* generate(), lines 135-179: the identifier, the configuration, the host
\* keys, the template and the keypair. Nothing is written yet.
GenPrepare(p, E) ==
    /\ pc[p] = "generate"
    /\ \E u \in (IF args[p].add_with_uuid.form # "empty"
                 THEN {args[p].add_with_uuid} ELSE ValidIds),
          env \in E, k \in Keys :
        LET val(n) == get_variable(TRUE, env.cfg[n].flag, env.cfg[n].env, TRUE, NoneV)
            host_keys == CollectHostKeys(env.key_files)
            tf == env.template
        IN /\ Logged(p, <<"generate">>)
           /\ IF ~is_valid_uuid_v4(u) THEN PrepareFails(p, u, "InvalidIdentifier")
              ELSE IF \E n \in 1..4 : val(n) = Raised
              THEN PrepareFails(p, u, "MissingConfiguration")
              ELSE IF ~EndsWithSlash(val(3)) THEN PrepareFails(p, u, "AssertionError")
              ELSE IF Len(host_keys) = 0 THEN PrepareFails(p, u, "NoHostKeysFound")
              ELSE IF tf = "absent" THEN PrepareFails(p, u, "TemplateNotFound")
              ELSE /\ loc' = [loc EXCEPT ![p] = [uuid |-> u, key |-> k, tmpl |-> tf,
                                                 cs |-> NoMember]]
                   /\ pc' = [pc EXCEPT ![p] = "sadd"]
                   /\ UNCHANGED <<users, files, err>>
    /\ UNCHANGED <<args, ret>>

\* A variant of Sadd that counts a member it already holds as added: what
\* C9 rules out.
SaddCountsEveryCall(set, member) == [set |-> set \cup {member}, added |-> 1]

\* redis_client.sadd(USERS_SET, member): the set afterwards and the count
\* of members added.
Sadd(set, member) ==
    [set |-> set \cup {member}, added |-> IF member \in set THEN 0 ELSE 1]

\* generate(), lines 181-183: register the composite string.
GenSadd(p) ==
    /\ pc[p] = "sadd"
    /\ LET client_string == ClientString(loc[p].uuid, loc[p].key)
           reply == Sadd(users, client_string)
       IN \/ /\ Raise(p, "StoreUnavailable")
             /\ Logged(p, <<"sadd", "raise">>)
             /\ UNCHANGED users
          \/ /\ Logged(p, <<"sadd">>)
             /\ users' = reply.set
             /\ IF reply.added # 1
                THEN Raise(p, "DuplicateClient")
                ELSE /\ pc' = [pc EXCEPT ![p] = "write"]
                     /\ UNCHANGED err
    /\ UNCHANGED <<files, args, loc, ret>>

\* template.substitute(...): whether the template read at line 165 renders.
Substitutes(tmpl) == tmpl = "ok"

\* A variant of GenWrite in which a failed write is swallowed and generate()
\* goes on to save(): what C6 rules out.
GenWriteGoesOn(p) ==
    /\ pc[p] = "write"
    /\ IF ~Substitutes(loc[p].tmpl)
       THEN /\ Raise(p, "TemplateParseError")
            /\ UNCHANGED <<files, log>>
       ELSE \/ /\ Logged(p, <<"write">>)
               /\ files' = files \cup {loc[p].uuid}
               /\ pc' = [pc EXCEPT ![p] = "save"]
               /\ UNCHANGED err
            \/ /\ Logged(p, <<"write", "raise">>)
               /\ pc' = [pc EXCEPT ![p] = "save"]
               /\ UNCHANGED <<files, err>>
    /\ UNCHANGED <<users, args, loc, ret>>

\* generate(), lines 185-194: render the template and write the artifact.
GenWrite(p) ==
    /\ pc[p] = "write"
    /\ IF ~Substitutes(loc[p].tmpl)
       THEN /\ Raise(p, "TemplateParseError")
            /\ UNCHANGED <<files, log>>
       ELSE \/ /\ Logged(p, <<"write">>)
               /\ files' = files \cup {loc[p].uuid}
               /\ pc' = [pc EXCEPT ![p] = "save"]
               /\ UNCHANGED err
            \/ /\ Logged(p, <<"write", "raise">>)   \* open() fails
               /\ Raise(p, "WriteError")
               /\ UNCHANGED files
            \/ /\ Logged(p, <<"write", "raise">>)   \* write() fails in the opened file
               /\ Raise(p, "WriteError")
               /\ files' = files \cup {loc[p].uuid}
    /\ UNCHANGED <<users, args, loc, ret>>

\* A variant of GenSave in which an exception of save() is swallowed and
\* generate() returns the identifier all the same.
GenSaveBestEffort(p) ==
    /\ pc[p] = "save"
    /\ \E calls \in {<<"save", "raise", "generate.return">>, <<"save", "generate.return">>} :
          /\ Logged(p, calls)
          /\ ret' = [ret EXCEPT ![p] = loc[p].uuid]
          /\ loc' = [loc EXCEPT ![p] = NoLocals]
          /\ pc' = [pc EXCEPT ![p] = AfterGenerate(args[p], AddsDone(log'[p]))]
          /\ UNCHANGED err
    /\ UNCHANGED <<users, files, args>>

\* generate(), lines 196-198: save the store and return the identifier.
GenSave(p) ==
    /\ pc[p] = "save"
    /\ \/ /\ Raise(p, "StoreUnavailable")
          /\ Logged(p, <<"save", "raise">>)
          /\ UNCHANGED <<loc, ret>>
       \/ /\ Logged(p, <<"save", "generate.return">>)
          /\ ret' = [ret EXCEPT ![p] = loc[p].uuid]
          /\ loc' = [loc EXCEPT ![p] = NoLocals]
          /\ pc' = [pc EXCEPT ![p] = AfterGenerate(args[p], AddsDone(log'[p]))]
          /\ UNCHANGED err
    /\ UNCHANGED <<users, files, args>>

\* ----------------------------------------------------------- remove_client
\* A variant of RemScan that deletes the artifact before it looks for the
\* member: what C11 rules out.
RemScanUnlinksFirst(p) ==
    /\ pc[p] = "remove_client"
    /\ LET client_uuid == args[p].rem
           found == {m \in users : StartsWith(m, client_uuid)}
       IN IF ~is_valid_uuid_v4(client_uuid)
          THEN /\ Raise(p, "InvalidIdentifier")
               /\ Logged(p, <<"remove_client">>)
               /\ UNCHANGED <<loc, files>>
          ELSE \/ /\ Logged(p, <<"remove_client", "smembers", "raise">>)
                  /\ Raise(p, "StoreUnavailable")
                  /\ UNCHANGED <<loc, files>>
               \/ /\ Logged(p, <<"remove_client", "os.remove", "smembers">>)
                  /\ found = {}
                  /\ files' = files \ {client_uuid}
                  /\ Raise(p, "ClientNotFound")
                  /\ UNCHANGED loc
               \/ \E m \in found :
                        /\ Logged(p, <<"remove_client", "smembers">>)
                        /\ loc' = [loc EXCEPT ![p] = [NoLocals EXCEPT !.cs = m]]
                        /\ pc' = [pc EXCEPT ![p] = "srem"]
                        /\ UNCHANGED <<err, files>>
    /\ UNCHANGED <<users, args, ret>>

\* remove_client(), lines 203-214: validate, read the members, find one.
RemScan(p) ==
    /\ pc[p] = "remove_client"
    /\ LET client_uuid == args[p].rem
           members == users
           found == {m \in members : StartsWith(m, client_uuid)}
       IN IF ~is_valid_uuid_v4(client_uuid)
          THEN /\ Raise(p, "InvalidIdentifier")
               /\ Logged(p, <<"remove_client">>)
               /\ UNCHANGED loc
          ELSE \/ /\ Logged(p, <<"remove_client", "smembers", "raise">>)
                  /\ Raise(p, "StoreUnavailable")
                  /\ UNCHANGED loc
               \/ /\ Logged(p, <<"remove_client", "smembers">>)
                  /\ found = {}
                  /\ Raise(p, "ClientNotFound")
                  /\ UNCHANGED loc
               \/ \E m \in found :
                        /\ Logged(p, <<"remove_client", "smembers">>)
                        /\ loc' = [loc EXCEPT ![p] = [NoLocals EXCEPT !.cs = m]]
                        /\ pc' = [pc EXCEPT ![p] = "srem"]
                        /\ UNCHANGED err
    /\ UNCHANGED <<users, files, args, ret>>

\* A variant of RemSrem that removes every member of the identifier instead
\* of the one member found: what C12 rules out.
RemSremWholeIdentity(p) ==
    /\ pc[p] = "srem"
    /\ \/ /\ Logged(p, <<"srem", "raise">>)
          /\ Raise(p, "StoreUnavailable")
          /\ UNCHANGED users
       \/ /\ Logged(p, <<"srem">>)
          /\ users' = {m \in users : ~StartsWith(m, args[p].rem)}
          /\ pc' = [pc EXCEPT ![p] = "rsave"]
          /\ UNCHANGED err
    /\ UNCHANGED <<files, args, loc, ret>>

\* remove_client(), line 216.
RemSrem(p) ==
    /\ pc[p] = "srem"
    /\ \/ /\ Logged(p, <<"srem", "raise">>)
          /\ Raise(p, "StoreUnavailable")
          /\ UNCHANGED users
       \/ /\ Logged(p, <<"srem">>)
          /\ users' = users \ {loc[p].cs}
          /\ pc' = [pc EXCEPT ![p] = "rsave"]
          /\ UNCHANGED err
    /\ UNCHANGED <<files, args, loc, ret>>

\* remove_client(), line 217.
RemSave(p) ==
    /\ pc[p] = "rsave"
    /\ \/ /\ Logged(p, <<"save", "raise">>)
          /\ Raise(p, "StoreUnavailable")
       \/ /\ Logged(p, <<"save">>)
          /\ pc' = [pc EXCEPT ![p] = "unlink"]
          /\ UNCHANGED err
    /\ UNCHANGED <<users, files, args, loc, ret>>

\* A variant of RemUnlink without the try/except around os.remove: what C10
\* rules out.
RemUnlinkUncaught(p) ==
    /\ pc[p] = "unlink"
    /\ \/ /\ args[p].rem \in files
          /\ files' = files \ {args[p].rem}
          /\ Logged(p, <<"os.remove", "remove_client.return">>)
          /\ pc' = [pc EXCEPT ![p] = AfterRemove(args[p])]
          /\ loc' = [loc EXCEPT ![p] = NoLocals]
          /\ UNCHANGED err
       \/ /\ UNCHANGED <<files, loc>>
          /\ Logged(p, <<"os.remove", "raise">>)
          /\ Raise(p, "WriteError")
    /\ UNCHANGED <<users, args, ret>>

\* remove_client(), lines 218-222: delete the artifact; an exception of
\* os.remove is printed and swallowed.
RemUnlink(p) ==
    /\ pc[p] = "unlink"
    /\ \/ /\ args[p].rem \in files
          /\ files' = files \ {args[p].rem}
          /\ Logged(p, <<"os.remove", "remove_client.return">>)
       \/ /\ UNCHANGED files
          /\ Logged(p, <<"os.remove", "raise", "remove_client.return">>)
    /\ pc' = [pc EXCEPT ![p] = AfterRemove(args[p])]
    /\ loc' = [loc EXCEPT ![p] = NoLocals]
    /\ UNCHANGED <<users, args, err, ret>>

\* -------------------------------------------------------------------- list
\* main(), lines 254-261.
List(p) ==
    /\ pc[p] = "list"
    /\ \/ /\ Logged(p, <<"list", "smembers", "raise">>)
          /\ Raise(p, "StoreUnavailable")
       \/ /\ Logged(p, <<"list", "smembers">>)
          /\ pc' = [pc EXCEPT ![p] = "done"]
          /\ UNCHANGED err
    /\ UNCHANGED <<users, files, args, loc, ret>>

\* ---------------------------------------------------------- specifications
\* The operation p runs finishes in this step: generate() or remove_client()
\* returns, or an exception leaves it.
OpPcs == {"generate", "sadd", "write", "save", "remove_client", "srem", "rsave", "unlink"}
Returns(p, op) ==
    /\ log'[p] # log[p]
    /\ log'[p] # <<>>
    /\ log'[p][Len(log'[p])] = op
Raises(p) == pc[p] \in OpPcs /\ pc'[p] = "failed"

\* prev: the identifier of the latest finished operation when that was a
\* remove_client() that returned.
TrackPrev(p) ==
    prev' = IF Returns(p, "remove_client.return") THEN args[p].rem
            ELSE IF Returns(p, "generate.return") \/ Raises(p) THEN NoneId
            ELSE prev

\* Invocations of the tool, one after the other, with any command line.
Next ==
    \E p \in {"inv1"} :
        \/ MainStart(p, CmdLines) /\ TrackPrev(p) /\ UNCHANGED <<call, result>>
        \/ GenPrepare(p, Envs) /\ TrackPrev(p) /\ UNCHANGED <<call, result>>
        \/ GenSadd(p) /\ TrackPrev(p) /\ UNCHANGED <<call, result>>
        \/ GenWrite(p) /\ TrackPrev(p) /\ UNCHANGED <<call, result>>
        \/ GenSave(p) /\ TrackPrev(p) /\ UNCHANGED <<call, result>>
        \/ RemScan(p) /\ TrackPrev(p) /\ UNCHANGED <<call, result>>
        \/ RemSrem(p) /\ TrackPrev(p) /\ UNCHANGED <<call, result>>
        \/ RemSave(p) /\ TrackPrev(p) /\ UNCHANGED <<call, result>>
        \/ RemUnlink(p) /\ TrackPrev(p) /\ UNCHANGED <<call, result>>
        \/ List(p) /\ TrackPrev(p) /\ UNCHANGED <<call, result>>
        \/ Exit(p) /\ TrackPrev(p) /\ UNCHANGED <<call, result>>
Spec == Init /\ [][Next]_vars

\* Two invocations of the tool racing on one store.
RaceNext ==
    \E p \in Procs :
        \/ MainStart(p, RaceCmdLines) /\ UNCHANGED <<prev, call, result>>
        \/ GenPrepare(p, {EnvGood}) /\ UNCHANGED <<prev, call, result>>
        \/ GenSadd(p) /\ UNCHANGED <<prev, call, result>>
        \/ GenWrite(p) /\ UNCHANGED <<prev, call, result>>
        \/ GenSave(p) /\ UNCHANGED <<prev, call, result>>
        \/ RemScan(p) /\ UNCHANGED <<prev, call, result>>
        \/ RemSrem(p) /\ UNCHANGED <<prev, call, result>>
        \/ RemSave(p) /\ UNCHANGED <<prev, call, result>>
        \/ RemUnlink(p) /\ UNCHANGED <<prev, call, result>>
        \/ List(p) /\ UNCHANGED <<prev, call, result>>
        \/ Exit(p) /\ UNCHANGED <<prev, call, result>>
RaceSpec == Init /\ [][RaceNext]_vars

\* No call on the store or on the file system raises in this step.
Calm(p) == \A n \in 1..Len(StepCalls(p)) : StepCalls(p)[n] # "raise"

\* Two invocations racing on one store, when the store and the file system
\* never fail.
CalmNext ==
    \E p \in Procs :
        \/ MainStart(p, RaceCmdLines) /\ Calm(p) /\ UNCHANGED <<prev, call, result>>
        \/ GenPrepare(p, {EnvGood}) /\ Calm(p) /\ UNCHANGED <<prev, call, result>>
        \/ GenSadd(p) /\ Calm(p) /\ UNCHANGED <<prev, call, result>>
        \/ GenWrite(p) /\ Calm(p) /\ UNCHANGED <<prev, call, result>>
        \/ GenSave(p) /\ Calm(p) /\ UNCHANGED <<prev, call, result>>
        \/ RemScan(p) /\ Calm(p) /\ UNCHANGED <<prev, call, result>>
        \/ RemSrem(p) /\ Calm(p) /\ UNCHANGED <<prev, call, result>>
        \/ RemSave(p) /\ Calm(p) /\ UNCHANGED <<prev, call, result>>
        \/ RemUnlink(p) /\ Calm(p) /\ UNCHANGED <<prev, call, result>>
        \/ List(p) /\ Calm(p) /\ UNCHANGED <<prev, call, result>>
        \/ Exit(p) /\ Calm(p) /\ UNCHANGED <<prev, call, result>>
CalmSpec == Init /\ [][CalmNext]_vars

\* ------------------------------------------------- helpers called on their own
\* The arguments of get_variable: the variable is absent from args, or args
\* holds an empty string, the sentinel -1, or a value; the environment
\* variable is unset, set, or set to nothing; strict and default are any.
FlagValues == {StrV(""), IntV(-1), StrV("x"), IntV(51820), StrV("-1"), IntV(0)}
EnvValues == {NoneV, StrV("y"), StrV("")}
DefaultValues == {NoneV, StrV("d")}
GetVarCalls ==
    {[fn |-> "get_variable", has_var |-> TRUE, tmp |-> t, envv |-> e,
      strict |-> st, default |-> d] :
        t \in FlagValues, e \in EnvValues, st \in BOOLEAN, d \in DefaultValues}
    \cup {[fn |-> "get_variable", has_var |-> FALSE, tmp |-> NoneV, envv |-> e,
           strict |-> st, default |-> d] :
        e \in EnvValues, st \in BOOLEAN, d \in DefaultValues}

\* The texts of host key files: none to four fields, separated by a space,
\* two spaces or a tab.
FieldLists ==
    {<<>>, <<"ssh-rsa">>, <<"ssh-rsa", "BBBB">>, <<"ssh-ed25519", "AAAA", "host1">>,
     <<"ssh-ed25519", "AAAA", "root@host1", "extra">>}
HostKeyTexts == {Content(f, sep) : f \in FieldLists, sep \in {" ", "  ", "\t"}}
HostKeyCalls ==
    {[fn |-> "host_keys", key_files |-> kf] :
        kf \in UNION {[1..n -> HostKeyTexts] : n \in 0..MaxKeyFiles}}

FnInit ==
    /\ users = {}
    /\ files = {}
    /\ pc = [p \in Procs |-> "idle"]
    /\ args = [p \in Procs |-> NoArgs]
    /\ loc = [p \in Procs |-> NoLocals]
    /\ err = [p \in Procs |-> "none"]
    /\ ret = [p \in Procs |-> NoneId]
    /\ log = [p \in Procs |-> <<>>]
    /\ prev = NoneId
    /\ call \in GetVarCalls \cup HostKeyCalls
    /\ result = Pending

CallGetVariable ==
    /\ call.fn = "get_variable"
    /\ result = Pending
    /\ result' = get_variable(call.has_var, call.tmp, call.envv, call.strict, call.default)
    /\ UNCHANGED <<users, files, pc, args, loc, err, ret, log, prev, call>>

\* generate(), lines 146-162 and 190: the host keys and their rendering.
CallHostKeys ==
    /\ call.fn = "host_keys"
    /\ result = Pending
    /\ result' = LET host_keys == CollectHostKeys(call.key_files)
                 IN IF Len(host_keys) = 0 THEN Raised
                    ELSE [t |-> "ok", host_keys |-> host_keys,
                          rendered |-> JsonDumps(host_keys)]
    /\ UNCHANGED <<users, files, pc, args, loc, err, ret, log, prev, call>>

FnNext == CallGetVariable \/ CallHostKeys
FnSpec == FnInit /\ [][FnNext]_vars

\* ------------------------------------------------------------- properties
\* The members of the set that carry an identifier.
Holders(id) == {m \in users : IdOf(m) = id}
\* The operation p entered last.
InOp(p, op) == LastOp(log[p]) # <<>> /\ LastOp(log[p])[1] = op
\* A call of the operation p entered last raised.
RaisedIn(p, what) ==
    \E n \in 1..(Len(LastOp(log[p])) - 1) :
        LastOp(log[p])[n] = what /\ LastOp(log[p])[n + 1] = "raise"
\* The member the running generate() of p registers.
Composite(p) == ClientString(loc[p].uuid, loc[p].key)

\* C1: in every state reached by adds and removes from the empty store, no
\* two members of the registered-clients set carry the same identifier.
C1_OneRecordPerIdentity ==
    \A m1 \in users, m2 \in users : IdOf(m1) = IdOf(m2) => m1 = m2

\* C2: two adds that run at the same time with the same identifier never
\* both get past add_record: at most one of them has its record inserted.
C2_ConcurrentAddsExclude ==
    \A p \in Procs, q \in Procs :
        (p # q /\ pc[p] \in {"write", "save"} /\ pc[q] \in {"write", "save"})
            => loc[p].uuid # loc[q].uuid

\* C3: a remove_client() never returns for the identifier that the operation
\* finished just before it, a remove_client() that returned, had removed.
C3_SecondRemoveFails ==
    [][\A p \in Procs :
          ~(Returns(p, "remove_client.return") /\ prev = args[p].rem)]_vars

\* C4: when remove_client(identity) has just returned, no member of the set
\* carries that identity.
C4_RemovedIdentityGone ==
    \A p \in Procs :
        (log[p] # <<>> /\ log[p][Len(log[p])] = "remove_client.return")
            => Holders(args[p].rem) = {}

\* C5 as stated: when save() raises in generate(), the add does not fail: it
\* returns the identifier.
C5_PersistBestEffort ==
    \A p \in Procs :
        (InOp(p, "generate") /\ RaisedIn(p, "save"))
            => (pc[p] # "failed" /\ Called(p, "generate.return"))

\* C5 as amended: when save() raises in generate(), after the record was
\* inserted and the artifact written, the exception leaves generate(): the add
\* fails and returns nothing, and the record and the artifact stay in place.
C5_PersistFailureFailsAdd ==
    \A p \in Procs :
        (InOp(p, "generate") /\ RaisedIn(p, "save"))
            => /\ pc[p] = "failed"
               /\ err[p] = "StoreUnavailable"
               /\ ~Called(p, "generate.return")
               /\ Composite(p) \in users
               /\ loc[p].uuid \in files
C5_Witness ==
    \E p \in Procs :
        InOp(p, "generate") /\ RaisedIn(p, "save") /\ Cardinality(users) > 1

\* C6: when the write of the artifact raises in generate(), the add fails, the
\* record it inserted is still in the set, and the add does not call save().
C6_WriteFailureKeepsRecord ==
    \A p \in Procs :
        (InOp(p, "generate") /\ RaisedIn(p, "write"))
            => /\ pc[p] = "failed"
               /\ err[p] = "WriteError"
               /\ Composite(p) \in users
               /\ ~Called(p, "save")
               /\ ~Called(p, "generate.return")
C6_Witness ==
    \E p \in Procs :
        /\ InOp(p, "generate") /\ RaisedIn(p, "write")
        /\ loc[p].uuid \notin files

\* C7: a step in which generate() fails with InvalidIdentifier,
\* MissingConfiguration, NoHostKeysFound or TemplateNotFound changes neither
\* the set nor the artifact directory, and that add has made no call on the
\* store or the directory before.
EarlyErrors ==
    {"InvalidIdentifier", "MissingConfiguration", "NoHostKeysFound", "TemplateNotFound"}
GenPcs == {"generate", "sadd", "write", "save"}
C7_EarlyFailuresChangeNothing ==
    [][\A p \in Procs :
          (pc[p] \in GenPcs /\ pc'[p] = "failed" /\ err'[p] \in EarlyErrors)
              => /\ users' = users
                 /\ files' = files
                 /\ LastOp(log'[p]) = <<"generate">>]_vars
C7_Witness ==
    \E p \in Procs :
        /\ pc[p] = "failed" /\ err[p] = "TemplateNotFound" /\ InOp(p, "generate")
        /\ users # {} /\ files # {}

\* C8: an add that fails with TemplateParseError has not called add_record,
\* and no record of its identifier is in the set.
C8_MalformedTemplateFailsBeforeAddRecord ==
    \A p \in Procs :
        (pc[p] = "failed" /\ err[p] = "TemplateParseError")
            => (~Called(p, "sadd") /\ Holders(loc[p].uuid) = {})

\* C9: a step in which sadd is called, and answers, for a composite string
\* that is already a member leaves the set as it was and fails the add with
\* DuplicateClient.
C9_DuplicateAddRejected ==
    [][\A p \in Procs :
          (pc[p] = "sadd" /\ StepCalls(p) = <<"sadd">> /\ Composite(p) \in users)
              => /\ users' = users
                 /\ pc'[p] = "failed"
                 /\ err'[p] = "DuplicateClient"]_vars
C9_Witness ==
    \E p \in Procs :
        /\ pc[p] = "failed" /\ err[p] = "DuplicateClient"
        /\ Composite(p) \in users /\ Cardinality(users) = 1

\* C10: a step in which os.remove raises in remove_client(), after srem and
\* save, does not fail the operation: remove_client() returns, no exception
\* leaves it, and the member it removed stays out of the set.
C10_DeleteFailureNotFatal ==
    [][\A p \in Procs :
          (pc[p] = "unlink" /\ Len(StepCalls(p)) >= 2
              /\ StepCalls(p)[1] = "os.remove" /\ StepCalls(p)[2] = "raise")
              => /\ pc'[p] \in {"list", "done"}
                 /\ err'[p] = "none"
                 /\ Returns(p, "remove_client.return")
                 /\ users' = users
                 /\ loc[p].cs \notin users']_vars
C10_Witness ==
    \E p \in Procs :
        /\ InOp(p, "remove_client") /\ RaisedIn(p, "os.remove")
        /\ Called(p, "remove_client.return")
        /\ args[p].rem \notin files

\* C11: a step in which remove_client() fails with InvalidIdentifier or
\* ClientNotFound changes neither the set nor the artifact directory, and
\* that remove has called neither srem, nor save, nor os.remove.
RemoveRefusals == {"InvalidIdentifier", "ClientNotFound"}
RemPcs == {"remove_client", "srem", "rsave", "unlink"}
C11_RefusedRemoveChangesNothing ==
    [][\A p \in Procs :
          (pc[p] \in RemPcs /\ pc'[p] = "failed" /\ err'[p] \in RemoveRefusals)
              => /\ users' = users
                 /\ files' = files
                 /\ \A n \in 1..Len(LastOp(log'[p])) :
                        LastOp(log'[p])[n] \notin {"srem", "save", "os.remove"}]_vars
C11_Witness ==
    \E p \in Procs :
        /\ pc[p] = "failed" /\ err[p] = "ClientNotFound" /\ InOp(p, "remove_client")
        /\ args[p].rem \in files /\ users # {}

\* C12: a remove_client(identity) that returns has called srem once; the
\* srem step takes exactly one member out of the set, a member whose
\* identifier is the given identity; no other step of the remove changes the
\* set, and no step of it touches the artifact of another identity.
SremCalls(s) == Cardinality({n \in 1..Len(s) : s[n] = "srem"})
C12_RemoveTakesOneMember ==
    [][\A p \in Procs :
          pc[p] \in RemPcs
              => /\ IF pc[p] = "srem" /\ pc'[p] = "rsave"
                    THEN /\ loc[p].cs \in users
                         /\ IdOf(loc[p].cs) = args[p].rem
                         /\ users' = users \ {loc[p].cs}
                         /\ Cardinality(users') = Cardinality(users) - 1
                    ELSE users' = users
                 /\ \A f \in (files \cup files') \ {args[p].rem} :
                        f \in files /\ f \in files'
                 /\ Returns(p, "remove_client.return")
                        => SremCalls(LastOp(log'[p])) = 1]_vars
C12_Witness ==
    \E p \in Procs :
        /\ InOp(p, "remove_client") /\ Called(p, "remove_client.return")
        /\ \E m \in users : IdOf(m) # args[p].rem
        /\ \E f \in files : f # args[p].rem
        /\ Holders(args[p].rem) # {}

\* C13: an exception in an add ends the invocation: the step in which
\* generate() raises leaves main(), and the only step after it is the end of
\* the process, which makes no call and changes neither the set nor the
\* directory. No step of an add takes a member or an artifact away, and an
\* add that returns leaves its record and its artifact behind, so those of
\* the adds that succeeded before remain.
C13_FailedAddAbortsInvocation ==
    [][\A p \in Procs :
          /\ (pc[p] \in GenPcs /\ err[p] = "none" /\ err'[p] # "none")
                => pc'[p] = "failed"
          /\ pc[p] = "failed"
                => (pc'[p] = "idle" /\ log'[p] = <<>> /\ users' = users /\ files' = files)
          /\ pc[p] \in GenPcs
                => (users \subseteq users' /\ files \subseteq files')
          /\ Returns(p, "generate.return")
                => (Composite(p) \in users' /\ loc[p].uuid \in files')]_vars
\* The second add of "--add 2 --rem U --list" has failed after the first
\* succeeded.
C13_Witness ==
    \E p \in Procs :
        /\ pc[p] = "failed" /\ InOp(p, "generate")
        /\ args[p].add = 2 /\ AddsDone(log[p]) = 1
        /\ args[p].rem.form # "empty" /\ args[p].list
        /\ Holders(ret[p]) # {} /\ ret[p] \in files

\* C14: every invocation that makes a call has made the ping first, and once
\* only. When the ping answers false or raises, main() is left at once: the
\* ping is the only call of the invocation, and neither the set nor the
\* directory changes.
PingFailed(s) == Len(s) >= 2 /\ s[1] = "ping" /\ s[2] \in {"false", "raise"}
C14_FailedPingIsFatal ==
    [][\A p \in Procs :
          /\ log'[p] # <<>>
                => /\ log'[p][1] = "ping"
                   /\ \A n \in 2..Len(log'[p]) : log'[p][n] # "ping"
          /\ PingFailed(log'[p])
                => /\ pc'[p] = "failed"
                   /\ err'[p] = "StoreUnavailable"
                   /\ Len(log'[p]) = 2
                   /\ users' = users
                   /\ files' = files]_vars
C14_Witness ==
    \E p \in Procs :
        /\ pc[p] = "failed" /\ log[p] = <<"ping", "false">>
        /\ args[p].add > 0 /\ args[p].rem \in files /\ Holders(args[p].rem) # {}

\* The variable is given on the command line: args holds a value that is
\* neither the empty string nor the sentinel -1.
FlagIsGiven(c) ==
    /\ c.has_var
    /\ ~(c.tmp.t = "str" /\ c.tmp.v = "")
    /\ ~(c.tmp.t = "int" /\ c.tmp.v = -1)
Returned(fn) == call.fn = fn /\ result # Pending

\* C15 as stated: the flag's value when given, else the environment
\* variable when set, else the default when there is one, else the call
\* fails, whatever strict is.
C15_ResolutionOrder ==
    Returned("get_variable")
        => result = IF FlagIsGiven(call) THEN PyStr(call.tmp)
                    ELSE IF call.envv # NoneV THEN call.envv
                    ELSE IF call.default # NoneV THEN call.default
                    ELSE Raised

\* C15 as amended: the flag's value when given, else the environment
\* variable when set, else the default when there is one, else the call
\* fails when strict is True and returns None when strict is False.
C15_ResolutionOrderStrict ==
    Returned("get_variable")
        => result = IF FlagIsGiven(call) THEN PyStr(call.tmp)
                    ELSE IF call.envv # NoneV THEN call.envv
                    ELSE IF call.default # NoneV THEN call.default
                    ELSE IF call.strict THEN Raised
                    ELSE NoneV
C15_Witness ==
    /\ Returned("get_variable") /\ result = NoneV
    /\ ~FlagIsGiven(call) /\ call.envv = NoneV /\ ~call.strict

\* C16: as the docstring of get_variable says, a call with strict False for
\* a variable found neither in args nor in the environment returns None,
\* with or without a default.
C16_DefaultOnlyWhenStrict ==
    (Returned("get_variable") /\ ~FlagIsGiven(call) /\ call.envv = NoneV /\ ~call.strict)
        => result = NoneV

\* C17: host_keys has one entry per file that matches, in order; the entry
\* is the file's first field, or its first two fields with one space between
\* them, whatever follows them and whatever whitespace separated them; and
\* the value rendered for host_keys holds these entries, each between quotes.
FirstTwoFields(text) ==
    LET w == Split(text)
    IN IF Len(w) = 0 THEN <<>>
       ELSE IF Len(w) = 1 THEN <<w[1]>>
       ELSE <<w[1], " ", w[2]>>
C17_HostKeyEntries ==
    (Returned("host_keys") /\ result # Raised)
        => /\ Len(result.host_keys) = Len(call.key_files)
           /\ Len(result.rendered) = Len(call.key_files)
           /\ \A n \in 1..Len(call.key_files) :
                 /\ result.host_keys[n] = FirstTwoFields(call.key_files[n])
                 /\ result.rendered[n] =
                        <<"\"">> \o FirstTwoFields(call.key_files[n]) \o <<"\"">>
C17_Witness ==
    /\ Returned("host_keys") /\ result # Raised
    /\ Len(call.key_files) = 2
    /\ Len(Split(call.key_files[1])) > 2 /\ call.key_files[1][2] = "\t"
    /\ Len(Split(call.key_files[2])) = 1

\* C18: of two invocations that run remove_client() at the same time on one
\* member of the set, only one returns: no remove_client() returns while the
\* other invocation, having removed the same member and saved, has only the
\* deletion of the artifact left to do.
C18_ConcurrentRemovesExclude ==
    [][\A p \in Procs, q \in Procs :
          ~(/\ p # q
            /\ Returns(p, "remove_client.return")
            /\ pc[q] = "unlink"
            /\ loc[q].cs = loc[p].cs)]_vars

\* C19: when the store and the file system never fail and no invocation is
\* in the middle of an operation, an identity has an artifact exactly when
\* the set holds a member of that identity.
Quiet == \A p \in Procs : pc[p] \in {"idle", "done", "failed"}
C19_StoreAndArtifactsAgree ==
    Quiet => \A id \in ValidIds : (id \in files) <=> (Holders(id) # {})

\* C20: the operations an invocation enters are, in order, a beginning of
\* its plan, and the whole plan when main() returns. With --add-with-uuid the
\* plan is one add, of that identifier, whatever --add, --rem and --list
\* say; without it the plan is the N adds, then the removal when --rem is
\* given, then the listing when --list is given.
OpsOf(s) == SelectSeq(s, LAMBDA c : c \in OpEntries)
Plan(a) ==
    IF a.add_with_uuid.form # "empty" THEN <<"generate">>
    ELSE [n \in 1..a.add |-> "generate"]
            \o (IF a.rem.form # "empty" THEN <<"remove_client">> ELSE <<>>)
            \o (IF a.list THEN <<"list">> ELSE <<>>)
IsPrefix(s, t) == Len(s) <= Len(t) /\ SubSeq(t, 1, Len(s)) = s
C20_AddWithUuidEndsInvocation ==
    \A p \in Procs :
        /\ IsPrefix(OpsOf(log[p]), Plan(args[p]))
        /\ pc[p] = "done" => OpsOf(log[p]) = Plan(args[p])
        /\ (args[p].add_with_uuid.form # "empty" /\ pc[p] \in {"sadd", "write", "save"})
              => loc[p].uuid = args[p].add_with_uuid
        /\ (args[p].add_with_uuid.form # "empty" /\ pc[p] = "done")
              => ret[p] = args[p].add_with_uuid
C20_Witness ==
    \E p \in Procs :
        /\ pc[p] = "done" /\ args[p].add_with_uuid \in ValidIds
        /\ args[p].add = MaxAdd /\ args[p].rem \in ValidIds /\ args[p].list
        /\ OpsOf(log[p]) = <<"generate">>
        /\ Holders(args[p].rem) # {}

====
